---- MODULE Spec2Model ----
(***************************************************************************)
(* LoopLens: the analysis engine of components/VideoAnalyzer.tsx and the   *)
(* caller state of App.tsx.                                                *)
(*                                                                         *)
(* Numbers.  Every JavaScript number that is not an integer count or index *)
(* is a binary floating-point value.  A value x is held as the integer     *)
(* x * 2^FracBits, and every arithmetic operation rounds its exact result  *)
(* to the nearest value with Precision significant bits, ties to even, as  *)
(* IEEE-754 does (binary64 has 53 significant bits; the model keeps the    *)
(* rounding and narrows the significand).                                  *)
(***************************************************************************)
EXTENDS Integers, Sequences, FiniteSets, TLC

\* ------------------------------------------------------------------ bounds
Precision == 11          \* significant bits of a number
FracBits == 16           \* binary digits kept after the point
MaxLogs == 6             \* user actions stop once the log holds this many entries
NumSamples == 13         \* samples of a signal handed to the loop stages
SignalLen == 10           \* samples of a raw signal handed to the signal stages

Unit == 2^FracBits

\* ------------------------------------------------------- number arithmetic
Max(a, b) == IF a >= b THEN a ELSE b
Min(a, b) == IF a <= b THEN a ELSE b
Abs(a) == IF a < 0 THEN -a ELSE a
Sgn(a) == IF a < 0 THEN -1 ELSE 1

\* the number of binary digits of n, 0 <= n < 2^31, by halving the width
BitLen4(n) == IF n < 4 THEN (IF n < 2 THEN n ELSE 2) ELSE (IF n < 8 THEN 3 ELSE 4)
BitLen8(n) == IF n < 16 THEN BitLen4(n) ELSE 4 + BitLen4(n \div 16)
BitLen16(n) == IF n < 256 THEN BitLen8(n) ELSE 8 + BitLen8(n \div 256)
BitLen(n) == IF n < 65536 THEN BitLen16(n) ELSE 16 + BitLen16(n \div 65536)

\* the number of trailing zero digits of n, 0 < n < 2^31
TrailZ1(n) == IF n % 2 = 0 THEN 1 ELSE 0
TrailZ2(n) == IF n % 4 = 0 THEN 2 + TrailZ1(n \div 4) ELSE TrailZ1(n)
TrailZ4(n) == IF n % 16 = 0 THEN 4 + TrailZ2(n \div 16) ELSE TrailZ2(n)
TrailZ8(n) == IF n % 256 = 0 THEN 8 + TrailZ4(n \div 256) ELSE TrailZ4(n)
TrailZ(n) == IF n % 65536 = 0 THEN 16 + TrailZ8(n \div 65536) ELSE TrailZ8(n)

\* (q + f) * 2^e2 with 0 <= f < 1 and sticky <=> f > 0, rounded to nearest,
\* ties to even; q carries at least Precision + 2 bits or is exact.
RoundDrop(q, sticky, e2, drop) ==
  IF drop > BitLen(q) THEN 0
  ELSE IF drop = 0 THEN q * 2^e2
  ELSE (q \div 2^drop
        + IF 2 * (q % 2^drop) > 2^drop
             \/ (2 * (q % 2^drop) = 2^drop /\ (sticky \/ (q \div 2^drop) % 2 = 1))
          THEN 1 ELSE 0) * 2^(drop + e2)

RoundSticky(q, sticky, e2) ==
  RoundDrop(q, sticky, e2, Max(Max(BitLen(q) - Precision, -e2), 0))

\* the number nearest to (M / d) * 2^e2, for M > 0 and d > 0
RoundQuot(M, d, e2) == RoundSticky(M \div d, (M % d) # 0, e2)

RoundScaled(m, d, e, sh) == RoundQuot(m * 2^sh, d, e - sh)

\* the number nearest to (m / d) * 2^e, for m >= 0 and d > 0
RoundRat(m, d, e) ==
  IF m = 0 THEN 0
  ELSE RoundScaled(m, d, e, Max(0, Precision + 2 + BitLen(d) - BitLen(m)))

\* the odd part of n > 0
Odd(n, tz) == n \div 2^tz

FromInt(k) == k * Unit
FAdd(x, y) == Sgn(x + y) * RoundRat(Abs(x + y), 1, 0)
FSub(x, y) == Sgn(x - y) * RoundRat(Abs(x - y), 1, 0)
MulTz(x, y, ax, ay) ==
  Sgn(x) * Sgn(y) * RoundRat(Odd(Abs(x), ax) * Odd(Abs(y), ay), 1, ax + ay - FracBits)
FMul(x, y) ==
  IF x = 0 \/ y = 0 THEN 0 ELSE MulTz(x, y, TrailZ(Abs(x)), TrailZ(Abs(y)))
DivTz(x, y, ax, ay) ==
  Sgn(x) * Sgn(y) * RoundRat(Odd(Abs(x), ax), Odd(Abs(y), ay), ax - ay + FracBits)
FDiv(x, y) ==
  IF x = 0 THEN 0 ELSE DivTz(x, y, TrailZ(Abs(x)), TrailZ(Abs(y)))

RECURSIVE ISqrt(_)
ISqrt(n) == IF n < 2 THEN n
            ELSE LET s == 2 * ISqrt(n \div 4)
                 IN  IF (s + 1) * (s + 1) <= n THEN s + 1 ELSE s

\* Math.sqrt: the root of m * 2^(2h), taken in integers from m * 4^k
SqrtRoot(M, r, e2) == RoundSticky(r, r * r # M, e2)
SqrtScaled(m, h, k) == SqrtRoot(m * 4^k, ISqrt(m * 4^k), h - k)
SqrtEven(m, h) == SqrtScaled(m, h, Max(0, (2 * Precision + 4 - BitLen(m)) \div 2))
SqrtTz(x, a0) ==
  IF (a0 + FracBits) % 2 = 0 THEN SqrtEven(Odd(x, a0), (a0 + FracBits) \div 2)
  ELSE SqrtEven(2 * Odd(x, a0), (a0 + FracBits - 1) \div 2)
FSqrt(x) == IF x = 0 THEN 0 ELSE SqrtTz(x, TrailZ(x))

Floor(x) == x \div Unit                 \* Math.floor
Ceil(x) == -((-x) \div Unit)            \* Math.ceil
MathRound(x) == (x + Unit \div 2) \div Unit   \* Math.round: floor(x + 0.5)
Frac(x) == x % Unit                     \* x % 1 for x >= 0
Dec(n, d) == FDiv(FromInt(n), FromInt(d))   \* the decimal literal n/d

\* ------------------------------------------------------------ types.ts
\* enum AppState
IDLE == "IDLE"
LOADING_VIDEO == "LOADING_VIDEO"
ANALYZING == "ANALYZING"
READY == "READY"

\* App.tsx useState<AnalysisConfig>: the initial configuration
DefaultConfig ==
  [sensitivity |-> 40, minLoopDuration |-> Dec(5, 10), maxLoopDuration |-> FromInt(5),
   samplingRate |-> 10, smoothingWindow |-> 2, detectionMode |-> "sets",
   detectSceneChanges |-> TRUE, ignoreSteadyMotion |-> TRUE, audioWeight |-> 20]

\* ------------------------------------------------- sums in the code's order
RECURSIVE FSumAcc(_, _)
FSumAcc(acc, s) == IF s = <<>> THEN acc ELSE FSumAcc(FAdd(acc, Head(s)), Tail(s))

\* arr.reduce((acc, d) => acc + d.x, 0) / arr.length || 1
AvgOr1(xs) ==
  IF Len(xs) = 0 THEN FromInt(1)
  ELSE LET q == FDiv(FSumAcc(0, xs), FromInt(Len(xs)))
       IN  IF q = 0 THEN FromInt(1) ELSE q

\* the moving-average loop of the detrending and smoothing stages:
\* for (j = max(0, i - w); j <= min(n - 1, i + w); j++) { sum += v[j]; count++ }
WindowMean(vals, i, w) ==
  LET lo == Max(0, i - w)
      hi == Min(Len(vals) - 1, i + w)
  IN  FDiv(FSumAcc(0, SubSeq(vals, lo + 1, hi + 1)), FromInt(hi - lo + 1))

Values(data) == [i \in 1..Len(data) |-> data[i].value]

\* --------------------------------------------- post processing and fusion
\* variant of Norm: the normalized score is not clamped
NormUnclamped(raw, avg) == FDiv(raw, FMul(avg, FromInt(2)))

\* raw / (avg * 2), clamped: Math.min(1, norm)
Norm(raw, avg) == Min(FromInt(1), FDiv(raw, FMul(avg, FromInt(2))))

\* avgV and avgA
AvgV(combinedData) == AvgOr1([i \in 1..Len(combinedData) |-> combinedData[i].raw.v])
AvgA(combinedData) == AvgOr1([i \in 1..Len(combinedData) |-> combinedData[i].raw.a])

\* wA = audioWeight / 100, wV = 1 - wA, fusedValue = normV * wV + normA * wA
FusedValue(normV, normA, config) ==
  LET wA == FDiv(FromInt(config.audioWeight), FromInt(100))
      wV == FSub(FromInt(1), wA)
  IN  FAdd(FMul(normV, wV), FMul(normA, wA))

\* combinedData.map(d => ...): dynamic gain, clamp, weighting
Fuse(combinedData, config) ==
  LET avgV == AvgV(combinedData)
      avgA == AvgA(combinedData)
      one(d) ==
        [d EXCEPT !.value = FMul(FusedValue(Norm(d.raw.v, avgV), Norm(d.raw.a, avgA),
                                            config),
                                 FromInt(255))]
  IN  [i \in 1..Len(combinedData) |-> one(combinedData[i])]

\* 1.1 Detect Scene Cuts (if enabled)
SceneCuts(processedData, config) ==
  IF ~config.detectSceneChanges \/ Len(processedData) = 0 THEN processedData
  ELSE LET visualRunningSum ==
             FSumAcc(0, [i \in 1..Len(processedData) |-> processedData[i].raw.v])
           vAvg == FDiv(visualRunningSum, FromInt(Len(processedData)))
           threshold == FMul(vAvg, FromInt(6))
       IN  [i \in 1..Len(processedData) |->
              IF processedData[i].raw.v > threshold
              THEN [processedData[i] EXCEPT !.isSceneCut = TRUE]
              ELSE processedData[i]]

\* 1.2 Detrending (High Pass Filter)
Detrend(processedData, config) ==
  IF ~config.ignoreSteadyMotion THEN processedData
  ELSE LET trendWindow == Floor(FMul(FromInt(config.samplingRate), Dec(15, 10)))
           vals == Values(processedData)
       IN  [i \in 1..Len(processedData) |->
              [processedData[i] EXCEPT
                 !.value = Max(0, FSub(vals[i], WindowMean(vals, i - 1, trendWindow)))]]

\* 2. smoothing before the peak comparison
Smooth(detrendedData, config) ==
  LET windowSize == IF config.smoothingWindow = 0 THEN 2 ELSE config.smoothingWindow
      vals == Values(detrendedData)
  IN  [i \in 1..Len(detrendedData) |->
         [detrendedData[i] EXCEPT !.value = WindowMean(vals, i - 1, windowSize)]]

\* variant of PeakThreshold: the factor falls as sensitivity rises
PeakThresholdFalling(smoothedData, config) ==
  FMul(FDiv(FSumAcc(0, Values(smoothedData)), FromInt(Len(smoothedData))),
       FAdd(FromInt(1), FDiv(FromInt(100 - config.sensitivity), FromInt(50))))

PeakThreshold(smoothedData, config) ==
  LET avgEnergy == FDiv(FSumAcc(0, Values(smoothedData)), FromInt(Len(smoothedData)))
  IN  FMul(avgEnergy, FAdd(FromInt(1), FDiv(FromInt(config.sensitivity), FromInt(50))))

\* variant of IsPeak: the first sample of a flat top counts as a peak
IsPeakOrFlatTop(smoothedData, peakThreshold, i) ==
  /\ smoothedData[i + 1].value > smoothedData[i].value
  /\ smoothedData[i + 1].value >= smoothedData[i + 2].value
  /\ smoothedData[i + 1].value > peakThreshold

\* whether 0-based index i satisfies the comparison of the peak loop
IsPeak(smoothedData, peakThreshold, i) ==
  LET prev == smoothedData[i].value
      curr == smoothedData[i + 1].value
      next == smoothedData[i + 2].value
  IN  curr > prev /\ curr > next /\ curr > peakThreshold

PeakAt(smoothedData, i) ==
  [time |-> smoothedData[i + 1].time, value |-> smoothedData[i + 1].value, index |-> i]

PeaksAt(smoothedData, indices) ==
  [j \in 1..Len(indices) |-> PeakAt(smoothedData, indices[j])]

PeaksOver(smoothedData, peakThreshold) ==
  PeaksAt(smoothedData,
          SelectSeq([i \in 1..(Len(smoothedData) - 2) |-> i],
                    LAMBDA i : IsPeak(smoothedData, peakThreshold, i)))

\* for (let i = 1; i < smoothedData.length - 1; i++) ...
Peaks(smoothedData, config) ==
  IF Len(smoothedData) < 3 THEN <<>>
  ELSE PeaksOver(smoothedData, PeakThreshold(smoothedData, config))

\* ------------------------------------------------ 3. atomic loop generation
\* variant of HasCut: only the sample of the start peak is examined
HasCutAtStart(detrendedData, startPeak, endPeak, config) ==
  /\ config.detectSceneChanges
  /\ detrendedData[startPeak.index + 1].isSceneCut

\* for (k = startPeak.index; k < endPeak.index; k++) if (isSceneCut) hasCut
HasCut(detrendedData, startPeak, endPeak, config) ==
  /\ config.detectSceneChanges
  /\ \E k \in startPeak.index..(endPeak.index - 1) : detrendedData[k + 1].isSceneCut

\* variant of PairAccepted: the lower duration bound is exclusive
PairAcceptedAboveMin(peaks, detrendedData, config, i) ==
  /\ ~HasCut(detrendedData, peaks[i + 1], peaks[i + 2], config)
  /\ FSub(peaks[i + 2].time, peaks[i + 1].time) > config.minLoopDuration
  /\ FSub(peaks[i + 2].time, peaks[i + 1].time) <= config.maxLoopDuration

\* the test that decides whether the pair (peaks[i], peaks[i+1]), 0-based i,
\* becomes an atomic loop
PairAccepted(peaks, detrendedData, config, i) ==
  LET startPeak == peaks[i + 1]
      endPeak == peaks[i + 2]
      loopDuration == FSub(endPeak.time, startPeak.time)
  IN  /\ ~HasCut(detrendedData, startPeak, endPeak, config)
      /\ loopDuration >= config.minLoopDuration
      /\ loopDuration <= config.maxLoopDuration

AtomicLoop(peaks, i) ==
  LET startPeak == peaks[i + 1]
      endPeak == peaks[i + 2]
      loopDuration == FSub(endPeak.time, startPeak.time)
  IN  [id |-> <<"atom", i>>,
       startTime |-> startPeak.time,
       endTime |-> endPeak.time,
       duration |-> loopDuration,
       bpm |-> MathRound(FDiv(FromInt(60), loopDuration)),
       confidence |->
         Min(FromInt(1),
             FMul(FDiv(FAdd(startPeak.value, endPeak.value), FromInt(2 * 255)),
                  FromInt(5))),
       repCount |-> 1,
       label |-> <<>>,
       thumbnail |-> <<>>]

AtomicAt(peaks, indices) ==
  [j \in 1..Len(indices) |-> AtomicLoop(peaks, indices[j])]

\* for (let i = 0; i < peaks.length - 1; i++) ...
AtomicLoops(peaks, detrendedData, config) ==
  AtomicAt(peaks,
           SelectSeq([i \in 1..(Len(peaks) - 1) |-> i - 1],
                     LAMBDA i : PairAccepted(peaks, detrendedData, config, i)))

\* ------------------------------------------- 4. final processing (merging)
\* variant of mergeSet: bpm and confidence are those of the first member
mergeSetOfFirst(loops, now) ==
  [loops[1] EXCEPT !.id = <<"set", now, loops[1].startTime>>,
                   !.endTime = loops[Len(loops)].endTime,
                   !.duration = FSub(loops[Len(loops)].endTime, loops[1].startTime),
                   !.repCount = Len(loops),
                   !.label = <<"Set of", Len(loops), "Reps">>]

\* variant of mergeSet: the set counts as one repetition
mergeSetOfOne(loops, now) ==
  [loops[1] EXCEPT !.id = <<"set", now, loops[1].startTime>>,
                   !.endTime = loops[Len(loops)].endTime,
                   !.duration = FSub(loops[Len(loops)].endTime, loops[1].startTime),
                   !.label = <<"Set of", Len(loops), "Reps">>]

\* variant of mergeSet: the id does not carry the start time
mergeSetUntimed(loops, now) ==
  LET first == loops[1]
      last == loops[Len(loops)]
      totalDuration == FSub(last.endTime, first.startTime)
      avgBpm == FDiv(FSumAcc(0, [i \in 1..Len(loops) |-> FromInt(loops[i].bpm)]),
                     FromInt(Len(loops)))
      avgConf == FDiv(FSumAcc(0, [i \in 1..Len(loops) |-> loops[i].confidence]),
                      FromInt(Len(loops)))
  IN  [id |-> <<"set", now>>,
       startTime |-> first.startTime,
       endTime |-> last.endTime,
       duration |-> totalDuration,
       bpm |-> MathRound(avgBpm),
       confidence |-> avgConf,
       repCount |-> Len(loops),
       label |-> <<"Set of", Len(loops), "Reps">>,
       thumbnail |-> <<>>]

mergeSet(loops, now) ==
  LET first == loops[1]
      last == loops[Len(loops)]
      totalDuration == FSub(last.endTime, first.startTime)
      avgBpm == FDiv(FSumAcc(0, [i \in 1..Len(loops) |-> FromInt(loops[i].bpm)]),
                     FromInt(Len(loops)))
      avgConf == FDiv(FSumAcc(0, [i \in 1..Len(loops) |-> loops[i].confidence]),
                      FromInt(Len(loops)))
  IN  [id |-> <<"set", now, first.startTime>>,
       startTime |-> first.startTime,
       endTime |-> last.endTime,
       duration |-> totalDuration,
       bpm |-> MathRound(avgBpm),
       confidence |-> avgConf,
       repCount |-> Len(loops),
       label |-> <<"Set of", Len(loops), "Reps">>,
       thumbnail |-> <<>>]

\* variant of GapHasCut: the scan starts one sample after the end of prev
GapHasCutAfterEnd(detrendedData, prev, curr, config) ==
  /\ config.detectSceneChanges
  /\ \E k \in (Floor(FMul(prev.endTime, FromInt(config.samplingRate))) + 1)
               ..(Ceil(FMul(curr.startTime, FromInt(config.samplingRate))) - 1) :
        k < Len(detrendedData) /\ detrendedData[k + 1].isSceneCut

\* for (k = startIndex; k < endIndex && k < detrendedData.length; k++)
GapHasCut(detrendedData, prev, curr, config) ==
  /\ config.detectSceneChanges
  /\ LET fps == FromInt(config.samplingRate)
         startIndex == Floor(FMul(prev.endTime, fps))
         endIndex == Ceil(FMul(curr.startTime, fps))
     IN  \E k \in startIndex..(endIndex - 1) :
            k < Len(detrendedData) /\ detrendedData[k + 1].isSceneCut

\* variant of Extends: maxGap is the larger of 2 s and four durations of prev
ExtendsFourDurations(detrendedData, prev, curr, config) ==
  /\ FSub(curr.startTime, prev.endTime)
       < Max(FromInt(2), FMul(prev.duration, FromInt(4)))
  /\ ~GapHasCut(detrendedData, prev, curr, config)

\* variant of Extends: curr must start after the end of prev
ExtendsPositiveGap(detrendedData, prev, curr, config) ==
  /\ FSub(curr.startTime, prev.endTime) > 0
  /\ FSub(curr.startTime, prev.endTime)
       < Max(FromInt(2), FMul(prev.duration, FromInt(3)))
  /\ ~GapHasCut(detrendedData, prev, curr, config)

\* variant of Extends: a gap equal to maxGap still extends the set
ExtendsUpToMaxGap(detrendedData, prev, curr, config) ==
  /\ FSub(curr.startTime, prev.endTime)
       <= Max(FromInt(2), FMul(prev.duration, FromInt(3)))
  /\ ~GapHasCut(detrendedData, prev, curr, config)

\* whether curr is pushed onto the open set whose last member is prev
Extends(detrendedData, prev, curr, config) ==
  LET gap == FSub(curr.startTime, prev.endTime)
      maxGap == Max(FromInt(2), FMul(prev.duration, FromInt(3)))
  IN  gap < maxGap /\ ~GapHasCut(detrendedData, prev, curr, config)

\* the loop over atomicLoops[i..]; currentSet is the open set
RECURSIVE SetsFrom(_, _, _, _, _, _)
SetsFrom(atomicLoops, detrendedData, config, now, currentSet, i) ==
  IF i > Len(atomicLoops) THEN <<mergeSet(currentSet, now)>>
  ELSE IF Extends(detrendedData, currentSet[Len(currentSet)], atomicLoops[i], config)
       THEN SetsFrom(atomicLoops, detrendedData, config, now,
                     Append(currentSet, atomicLoops[i]), i + 1)
       ELSE <<mergeSet(currentSet, now)>>
            \o SetsFrom(atomicLoops, detrendedData, config, now,
                        <<atomicLoops[i]>>, i + 1)

\* variant of FinalLoops: each unit is put in front of the list (unshift)
FinalLoopsNewestFirst(atomicLoops, detrendedData, config, now) ==
  IF config.detectionMode = "reps"
  THEN [i \in 1..Len(atomicLoops) |->
          [atomicLoops[Len(atomicLoops) + 1 - i]
             EXCEPT !.id = <<"rep", now, Len(atomicLoops) - i>>,
                    !.label = <<"Repetition", Len(atomicLoops) + 1 - i>>]]
  ELSE IF Len(atomicLoops) > 0
       THEN [i \in 1..Len(SetsFrom(atomicLoops, detrendedData, config, now,
                                   <<atomicLoops[1]>>, 2)) |->
               SetsFrom(atomicLoops, detrendedData, config, now, <<atomicLoops[1]>>, 2)
                 [Len(SetsFrom(atomicLoops, detrendedData, config, now,
                               <<atomicLoops[1]>>, 2)) + 1 - i]]
       ELSE <<>>

FinalLoops(atomicLoops, detrendedData, config, now) ==
  IF config.detectionMode = "reps"
  THEN [i \in 1..Len(atomicLoops) |->
          [atomicLoops[i] EXCEPT !.id = <<"rep", now, i - 1>>,
                                 !.label = <<"Repetition", i>>]]
  ELSE IF Len(atomicLoops) > 0
       THEN SetsFrom(atomicLoops, detrendedData, config, now, <<atomicLoops[1]>>, 2)
       ELSE <<>>

\* ------------------------------------------------ 1. data extraction phase
\* the processing canvas (canvas.width, canvas.height), narrowed
processWidth == 2
processHeight == 1
pixelCount == processWidth * processHeight

\* 0.299*r + 0.587*g + 0.114*b of one pixel <<r, g, b>>
Gray(px) ==
  FAdd(FAdd(FMul(Dec(299, 1000), FromInt(px[1])), FMul(Dec(587, 1000), FromInt(px[2]))),
       FMul(Dec(114, 1000), FromInt(px[3])))

\* the pixel loop of onSeek: acc = [pxSum, pxSumSq, diffScore]; prev = <<>> is
\* prevFrameData = null
RECURSIVE ScanPixels(_, _, _, _)
ScanPixels(frame, prev, i, acc) ==
  IF i > Len(frame) THEN acc
  ELSE LET gray == Gray(frame[i])
           d == IF prev = <<>> THEN 0
                ELSE FSqrt(Abs(FSub(gray, Gray(prev[i]))))
       IN  ScanPixels(frame, prev, i + 1,
                      [pxSum |-> FAdd(acc.pxSum, gray),
                       pxSumSq |-> FAdd(acc.pxSumSq, FMul(gray, gray)),
                       diffScore |-> FAdd(acc.diffScore, d)])

\* what captureFrame resolves with, for the frame drawn and the previous one
FrameScore(frame, prev) ==
  LET acc == ScanPixels(frame, prev, 1, [pxSum |-> 0, pxSumSq |-> 0, diffScore |-> 0])
      n == FromInt(Len(frame))
      mean == FDiv(acc.pxSum, n)
  IN  [vScore |-> FDiv(acc.diffScore, n),
       variance |-> FSub(FDiv(acc.pxSumSq, n), FMul(mean, mean))]

\* Helper: Get Audio RMS at specific time; audioBuffer = <<>> is null
RECURSIVE SumSquares(_, _, _, _)
SumSquares(channelData, i, endSample, acc) ==
  IF ~(i < endSample /\ i < Len(channelData)) THEN acc
  ELSE SumSquares(channelData, i + 1, endSample,
                  [sumSq |-> FAdd(acc.sumSq, FMul(channelData[i + 1], channelData[i + 1])),
                   count |-> acc.count + 1])

\* variant of getAudioRMS: without a buffer the score is not zero
getAudioRMSUnguarded(audioBuffer, time, windowSize) ==
  IF audioBuffer = <<>> THEN FMul(windowSize, FromInt(1000))
  ELSE LET sampleRate == FromInt(audioBuffer.sampleRate)
           startSample == Floor(FMul(time, sampleRate))
           endSample == Floor(FMul(FAdd(time, windowSize), sampleRate))
           acc == SumSquares(audioBuffer.channelData, startSample, endSample,
                             [sumSq |-> 0, count |-> 0])
       IN  IF acc.count = 0 THEN 0
           ELSE FMul(FSqrt(FDiv(acc.sumSq, FromInt(acc.count))), FromInt(1000))

getAudioRMS(audioBuffer, time, windowSize) ==
  IF audioBuffer = <<>> THEN 0
  ELSE LET sampleRate == FromInt(audioBuffer.sampleRate)
           startSample == Floor(FMul(time, sampleRate))
           endSample == Floor(FMul(FAdd(time, windowSize), sampleRate))
           acc == SumSquares(audioBuffer.channelData, startSample, endSample,
                             [sumSq |-> 0, count |-> 0])
       IN  IF acc.count = 0 THEN 0
           ELSE FMul(FSqrt(FDiv(acc.sumSq, FromInt(acc.count))), FromInt(1000))

\* ------------------------------------------------------- the video files
\* What the browser yields for a file: its duration, the frame shown at a
\* playback position, and its decoded audio track.  A frame is its processing
\* canvas image: pixel 1 carries the moving subject, the rest is background.
\* b.mp4 is a short black clip without audio; c.mp4 shows one solid colour per
\* frame, flashing between two greys, and has a beat on its audio track.
\* Frame k of a file is on screen from (k - 1/2) / NativeFps on.
Files == {"a.mp4", "b.mp4", "c.mp4"}
None == "none"
NativeFps == 10

Frame(level) == [i \in 1..pixelCount |-> IF i = 1 THEN <<level, level, level>> ELSE <<0, 0, 0>>]
SolidFrame(level) == [i \in 1..pixelCount |-> <<level, level, level>>]

\* every frame of f is one solid colour
Solid(f) == f \in {"b.mp4", "c.mp4"}

SubjectLevels(f) ==
  IF f = "a.mp4"
  THEN <<9, 9, 10, 14, 10, 14, 13, 13, 13, 13, 14, 10, 14, 10, 9, 9, 9, 9, 9, 9, 9>>
  ELSE IF f = "c.mp4"
  THEN <<3, 8, 3, 8, 3, 8, 3, 8, 3, 8, 3, 8, 3, 8, 3, 8, 3, 8, 3, 8, 3>>
  ELSE <<0, 0, 0, 0>>

VideoDuration(f) == IF f = "b.mp4" THEN Dec(3, 10) ELSE FromInt(2)

VideoFrame(f, time) ==
  LET levels == SubjectLevels(f)
      k == MathRound(time * NativeFps)
  IN  IF Solid(f) THEN SolidFrame(levels[Min(Len(levels), k + 1)])
      ELSE Frame(levels[Min(Len(levels), k + 1)])

HasAudio(f) == f \in {"a.mp4", "c.mp4"}
BeatShape == <<3, 4, 5, 4, 3>>
AudioTrack(f) ==
  [sampleRate |-> NativeFps,
   channelData |->
     IF f = "c.mp4"
     THEN [i \in 1..21 |-> IF i \in 5..9 THEN Dec(BeatShape[i - 4], 16)
                            ELSE IF i \in 12..16 THEN Dec(BeatShape[i - 11], 16)
                            ELSE Dec(2, 16)]
     ELSE [i \in 1..21 |-> IF i \in {5, 13} THEN Dec(1, 8) ELSE 0]]

\* ------------------------------------------------------------------ state
VARIABLES
  appState, file, config, loops, motionData, progress, logs,  \* App
  video,                                               \* the <video> element
  pc, t, combinedData, prevFrameData, audioBuffer,     \* startAnalysis
  detrendedData, peaks, atomicLoops, finalLoops, resultLoopsWithThumbs,
  run                                                  \* bookkeeping of the run

vars == <<appState, file, config, loops, motionData, progress, logs,
          video, pc, t, combinedData, prevFrameData, audioBuffer,
          detrendedData, peaks, atomicLoops, finalLoops, resultLoopsWithThumbs, run>>

\* the variables an analysis run reads and writes, as one record
Cur ==
  [appState |-> appState, loops |-> loops, motionData |-> motionData,
   progress |-> progress, logs |-> logs, video |-> video, pc |-> pc, t |-> t,
   combinedData |-> combinedData, prevFrameData |-> prevFrameData,
   audioBuffer |-> audioBuffer, detrendedData |-> detrendedData, peaks |-> peaks,
   atomicLoops |-> atomicLoops, finalLoops |-> finalLoops,
   resultLoopsWithThumbs |-> resultLoopsWithThumbs, run |-> run]

Becomes(S) ==
  /\ appState' = S.appState /\ loops' = S.loops /\ motionData' = S.motionData
  /\ progress' = S.progress /\ logs' = S.logs /\ video' = S.video /\ pc' = S.pc
  /\ t' = S.t /\ combinedData' = S.combinedData /\ prevFrameData' = S.prevFrameData
  /\ audioBuffer' = S.audioBuffer /\ detrendedData' = S.detrendedData
  /\ peaks' = S.peaks /\ atomicLoops' = S.atomicLoops /\ finalLoops' = S.finalLoops
  /\ resultLoopsWithThumbs' = S.resultLoopsWithThumbs /\ run' = S.run
  /\ UNCHANGED <<file, config>>

NoRun ==
  [no |-> 0, outcome |-> "none", config |-> DefaultConfig, file |-> None,
   loopsBefore |-> <<>>, motionBefore |-> <<>>, logsBefore |-> 0,
   audioFailed |-> FALSE, thrown |-> "none", seeks |-> 0, overlapped |-> FALSE,
   loopsDetected |-> 0, motionDataUpdates |-> 0,
   samples |-> 0, peaks |-> 0, atomicLoops |-> 0]

Init ==
  /\ appState = IDLE /\ file = None /\ config = DefaultConfig
  /\ loops = <<>> /\ motionData = <<>> /\ progress = 0 /\ logs = <<>>
  /\ video = [duration |-> 0, currentTime |-> 0, seeking |-> FALSE]
  /\ pc = "idle" /\ t = 0 /\ combinedData = <<>> /\ prevFrameData = <<>>
  /\ audioBuffer = <<>> /\ detrendedData = <<>> /\ peaks = <<>>
  /\ atomicLoops = <<>> /\ finalLoops = <<>> /\ resultLoopsWithThumbs = <<>>
  /\ run = NoRun

\* --------------------------------------------------- the analysis run
\* addLog(level, message)
Log(S, level, message) ==
  [S EXCEPT !.logs = Append(@, [level |-> level, message |-> message])]

\* video.currentTime = time: the element moves there and starts seeking; a
\* seek still in progress is abandoned
IssueSeek(S, time) ==
  [S EXCEPT !.video.currentTime = time, !.video.seeking = TRUE,
            !.run.seeks = @ + 1,
            !.run.overlapped = @ \/ S.video.seeking]

\* const interval = 1 / fps
Interval(cfg) == FDiv(FromInt(1), FromInt(cfg.samplingRate))

\* startAnalysis returns: its locals are gone
Return(S) ==
  [S EXCEPT !.pc = "idle", !.t = 0, !.combinedData = <<>>, !.prevFrameData = <<>>,
            !.audioBuffer = <<>>, !.detrendedData = <<>>, !.peaks = <<>>,
            !.atomicLoops = <<>>, !.finalLoops = <<>>,
            !.resultLoopsWithThumbs = <<>>]

\* onLoopsDetected, success log, setAppState(READY), video.currentTime = 0
Complete(S) ==
  Return(IssueSeek(Log([S EXCEPT !.loops = S.resultLoopsWithThumbs,
                                 !.appState = READY, !.run.outcome = "complete",
                                 !.run.loopsDetected = @ + 1],
                       "success", "Analysis Complete"), 0))

\* const thumbTime = loop.startTime + (loop.duration * 0.5)
ThumbTime(loop) == FAdd(loop.startTime, FMul(loop.duration, Dec(5, 10)))

\* variant of Thumbnails: an empty list of final loops ends the run as failed
ThumbnailsRejectEmpty(S) ==
  IF Len(S.finalLoops) = 0
  THEN Return(Log([S EXCEPT !.appState = READY, !.run.outcome = "failed",
                            !.run.thrown = "empty"],
                  "error", "Analysis failed"))
  ELSE IF Len(S.resultLoopsWithThumbs) < Len(S.finalLoops)
  THEN IssueSeek([S EXCEPT !.pc = "thumb"],
                 ThumbTime(S.finalLoops[Len(S.resultLoopsWithThumbs) + 1]))
  ELSE Complete(S)

\* 5. THUMBNAILS: the loop test, then the next seek or the completion
Thumbnails(S) ==
  IF Len(S.resultLoopsWithThumbs) < Len(S.finalLoops)
  THEN IssueSeek([S EXCEPT !.pc = "thumb"],
                 ThumbTime(S.finalLoops[Len(S.resultLoopsWithThumbs) + 1]))
  ELSE Complete(S)

\* the body of the thumbnail loop after its seek has settled
AfterThumbSeek(S) ==
  Thumbnails([S EXCEPT !.video.seeking = FALSE,
                       !.resultLoopsWithThumbs =
                          Append(@, [S.finalLoops[Len(S.resultLoopsWithThumbs) + 1]
                                       EXCEPT !.thumbnail = <<"jpeg", S.video.currentTime>>])])

\* 4. FINAL PROCESSING (MERGING), then the thumbnails
FinalProcessing(S, detrended, pk, atomic) ==
  Thumbnails([S EXCEPT !.motionData = detrended, !.detrendedData = detrended,
                       !.peaks = pk, !.atomicLoops = atomic,
                       !.finalLoops = FinalLoops(atomic, detrended, S.run.config, S.run.no),
                       !.resultLoopsWithThumbs = <<>>,
                       !.run.motionDataUpdates = @ + 1,
                       !.run.samples = Len(detrended), !.run.peaks = Len(pk),
                       !.run.atomicLoops = Len(atomic)])

\* 3. ATOMIC LOOP GENERATION
AtomicLoopGeneration(S, detrended, pk) ==
  FinalProcessing(S, detrended, pk, AtomicLoops(pk, detrended, S.run.config))

\* onMotionDataUpdate(detrendedData), then 2. PEAK DETECTION
PeakDetection(S, detrended) ==
  AtomicLoopGeneration(S, detrended,
                       Peaks(Smooth(detrended, S.run.config), S.run.config))

\* POST PROCESSING & FUSION up to the first thumbnail seek
PostProcess(S) ==
  PeakDetection(IF S.run.config.ignoreSteadyMotion
                THEN Log(S, "info", "Applied High-Pass filter") ELSE S,
                Detrend(SceneCuts(Fuse(S.combinedData, S.run.config), S.run.config),
                        S.run.config))

\* for (...; t < duration; ...): the loop test, then captureFrame(t) or the
\* code after the loop
SampleLoop(S) ==
  IF S.t < S.video.duration THEN IssueSeek([S EXCEPT !.pc = "seek"], S.t)
  ELSE PostProcess(S)

\* variant of NextSample: the time is the sample count times the interval
NextSampleByIndex(S) ==
  SampleLoop([S EXCEPT !.t = FMul(FromInt(Len(S.combinedData)), Interval(S.run.config))])

\* t += interval, then the loop test
NextSample(S) == SampleLoop([S EXCEPT !.t = FAdd(S.t, Interval(S.run.config))])

\* if (t % 1 < interval) await setTimeout, else on to the next sample
YieldOrNext(S) ==
  IF Frac(S.t) < Interval(S.run.config) THEN [S EXCEPT !.pc = "yield"]
  ELSE NextSample(S)

\* variant of Record: the visual score is kept whatever the variance
RecordUnsuppressed(S, score) ==
  YieldOrNext(
    [S EXCEPT !.combinedData =
                 Append(@, [time |-> S.t, value |-> 0, isSceneCut |-> FALSE,
                            raw |-> [v |-> score.vScore,
                                     a |-> getAudioRMS(S.audioBuffer, S.t,
                                                       Interval(S.run.config))]]),
              !.progress = FMul(FDiv(S.t, S.video.duration), FromInt(100))])

\* the loop body after captureFrame resolved with score
Record(S, score) ==
  YieldOrNext(
    [S EXCEPT !.combinedData =
                 Append(@, [time |-> S.t, value |-> 0, isSceneCut |-> FALSE,
                            raw |-> [v |-> IF score.variance < FromInt(10)
                                           THEN 0 ELSE score.vScore,
                                     a |-> getAudioRMS(S.audioBuffer, S.t,
                                                       Interval(S.run.config))]]),
              !.progress = FMul(FDiv(S.t, S.video.duration), FromInt(100))])

\* onSeek with the frame it draws
OnSeek(S, frame) ==
  Record([S EXCEPT !.video.seeking = FALSE, !.prevFrameData = frame],
         FrameScore(frame, S.prevFrameData))

\* 'seeked' during captureFrame, up to the yield or the next seek
AfterCapture(S) == OnSeek(S, VideoFrame(S.run.file, S.video.currentTime))

\* the code from "Config" to the first captureFrame
BeginSampling(S) ==
  SampleLoop([S EXCEPT !.t = 0, !.combinedData = <<>>, !.prevFrameData = <<>>])

\* catch (err): error log, setAppState(READY)
Catch(S, where) ==
  Return(Log([S EXCEPT !.appState = READY, !.run.outcome = "failed",
                       !.run.thrown = where],
             "error", "Analysis failed"))

\* ------------------------------------------------------------ the actions
\* App.tsx: const isBlocking = ...
isBlocking == appState = ANALYZING \/ appState = LOADING_VIDEO

RunVars ==
  <<pc, t, combinedData, prevFrameData, audioBuffer, detrendedData, peaks,
    atomicLoops, finalLoops, resultLoopsWithThumbs, run>>

\* VideoAnalyzer's effect on [file]: new source, LOADING_VIDEO, cleared results
\* variant of LoadVideo: the caller's loops and motion data are not cleared
LoadVideoKeepsResults(f, lg) ==
  /\ file' = f
  /\ video' = [duration |-> 0, currentTime |-> 0, seeking |-> FALSE]
  /\ appState' = LOADING_VIDEO
  /\ UNCHANGED <<loops, motionData>>
  /\ logs' = Append(lg, [level |-> "info", message |-> "Loaded"])

LoadVideo(f, lg) ==
  /\ file' = f
  /\ video' = [duration |-> 0, currentTime |-> 0, seeking |-> FALSE]
  /\ appState' = LOADING_VIDEO
  /\ loops' = <<>>
  /\ motionData' = <<>>
  /\ logs' = Append(lg, [level |-> "info", message |-> "Loaded"])

\* handleFileUpload (the file input is disabled while blocking), then the
\* effect of the new file
HandleFileUpload(f) ==
  /\ ~isBlocking
  /\ Len(logs) < MaxLogs
  /\ LoadVideo(f, Append(logs, [level |-> "info", message |-> "File loaded."]))
  /\ UNCHANGED <<config, progress>>
  /\ UNCHANGED RunVars

\* onLoadedMetadata
HandleLoadedMetadata ==
  /\ appState = LOADING_VIDEO
  /\ video.duration = 0
  /\ video' = [video EXCEPT !.duration = VideoDuration(file)]
  /\ appState' = READY
  /\ UNCHANGED <<file, config, loops, motionData, progress, logs>>
  /\ UNCHANGED RunVars

\* the configuration controls; their panel takes no pointer events while blocking
ConfigEdits ==
  {<<"samplingRate", 5>>, <<"samplingRate", 10>>, <<"audioWeight", 0>>,
   <<"audioWeight", 20>>, <<"detectionMode", "reps">>, <<"detectionMode", "sets">>,
   <<"sensitivity", 1>>, <<"sensitivity", 40>>}

SetConfig(field, value) ==
  /\ ~isBlocking
  /\ config[field] # value
  /\ config' = [config EXCEPT ![field] = value]
  /\ UNCHANGED <<appState, file, loops, motionData, progress, logs, video>>
  /\ UNCHANGED RunVars

\* The settings panel is only styled pointer-events-none while blocking
\* (App.tsx line 306) and its inputs are not disabled: a range input that has
\* the keyboard focus still takes key presses, and its onChange calls setConfig.
KeyEdits == {<<"sensitivity", 1>>, <<"sensitivity", 40>>}

SetConfigByKey(field, value) ==
  /\ isBlocking
  /\ config[field] # value
  /\ config' = [config EXCEPT ![field] = value]
  /\ UNCHANGED <<appState, file, loops, motionData, progress, logs, video>>
  /\ UNCHANGED RunVars

\* a step that is a key press on a settings control, not a step of the run
UserKeyStep == \E e \in KeyEdits : SetConfigByKey(e[1], e[2])

\* variant of Started: appState is not set to ANALYZING
StartedStaysReady ==
  Log([Cur EXCEPT !.audioBuffer = <<>>,
                  !.run = [NoRun EXCEPT !.no = run.no + 1, !.outcome = "running",
                                        !.config = config, !.file = file,
                                        !.loopsBefore = loops,
                                        !.motionBefore = motionData,
                                        !.logsBefore = Len(logs)]],
      "info", "Starting hybrid analysis")

\* startAnalysis up to its first await; ctxOk is whether getContext('2d')
\* returned a context
Started ==
  Log([Cur EXCEPT !.appState = ANALYZING, !.audioBuffer = <<>>,
                  !.run = [NoRun EXCEPT !.no = run.no + 1, !.outcome = "running",
                                        !.config = config, !.file = file,
                                        !.loopsBefore = loops,
                                        !.motionBefore = motionData,
                                        !.logsBefore = Len(logs)]],
      "info", "Starting hybrid analysis")

\* variant of NoContext: the state is not set back to READY
NoContextStaysAnalyzing(S) ==
  Log([S EXCEPT !.run.outcome = "setup"], "error", "Canvas context failed")

\* if (!ctx) { addLog('error', ...); setAppState(READY); return; }
NoContext(S) ==
  Log([S EXCEPT !.appState = READY, !.run.outcome = "setup"],
      "error", "Canvas context failed")

AudioSetup(S) ==
  IF S.run.config.audioWeight > 0
  THEN Log([S EXCEPT !.pc = "audio"], "info", "Decoding audio track")
  ELSE BeginSampling(S)

StartAnalysis(ctxOk) ==
  /\ appState = READY
  /\ file # None
  /\ Len(logs) < MaxLogs
  /\ Becomes(IF ctxOk THEN AudioSetup(Started) ELSE NoContext(Started))

\* the awaits of the audio setup settle: decoded, or the catch branch
AudioDecoded(ok) ==
  /\ pc = "audio"
  /\ ok => HasAudio(run.file)
  /\ Becomes(BeginSampling(
       IF ok THEN Log([Cur EXCEPT !.audioBuffer = AudioTrack(run.file)],
                      "success", "Audio track decoded.")
       ELSE Log([Cur EXCEPT !.run.audioFailed = TRUE],
                "warn", "Failed to decode audio.")))

\* 'seeked' reaches onSeek
SeekedSample ==
  /\ pc = "seek" /\ video.seeking
  /\ Becomes(AfterCapture(Cur))

\* 'seeked' reaches onSeek, and drawImage or getImageData throws inside the
\* listener: the promise of captureFrame is never resolved
SeekedSampleThrows ==
  /\ pc = "seek" /\ video.seeking
  /\ Becomes([Cur EXCEPT !.video.seeking = FALSE, !.pc = "stalled",
                         !.run.outcome = "stalled", !.run.thrown = "onSeek"])

\* setTimeout(r, 0) fires
TimeoutFired ==
  /\ pc = "yield"
  /\ Becomes(NextSample(Cur))

\* 'seeked' reaches the thumbnail listener h
SeekedThumb ==
  /\ pc = "thumb" /\ video.seeking
  /\ Becomes(AfterThumbSeek(Cur))

\* ... and drawImage or toDataURL throws in the thumbnail loop
SeekedThumbThrows ==
  /\ pc = "thumb" /\ video.seeking
  /\ Becomes(Catch([Cur EXCEPT !.video.seeking = FALSE], "thumbnail"))

\* 'seeked' with no listener registered (the seek of video.currentTime = 0)
SeekedUnheard ==
  /\ video.seeking
  /\ pc \notin {"seek", "thumb"}
  /\ video' = [video EXCEPT !.seeking = FALSE]
  /\ UNCHANGED <<appState, file, config, loops, motionData, progress, logs>>
  /\ UNCHANGED RunVars

Next ==
  \/ \E f \in Files : HandleFileUpload(f)
  \/ HandleLoadedMetadata
  \/ \E e \in ConfigEdits : SetConfig(e[1], e[2])
  \/ \E e \in KeyEdits : SetConfigByKey(e[1], e[2])
  \/ \E ctxOk \in BOOLEAN : StartAnalysis(ctxOk)
  \/ \E ok \in BOOLEAN : AudioDecoded(ok)
  \/ SeekedSample
  \/ SeekedSampleThrows
  \/ TimeoutFired
  \/ SeekedThumb
  \/ SeekedThumbThrows
  \/ SeekedUnheard

Spec == Init /\ [][Next]_vars

\* ------------------------------------------- the loop stages on their own
\* Stages 3 and 4 applied to every peak list and scene-cut flagging of a
\* signal of NumSamples samples: the state after stage 2 is drawn by InitLoops,
\* AtomicStage and FinalStage are lines 398-426 and 428-463.
RECURSIVE TimeAt(_, _)
TimeAt(k, interval) == IF k = 0 THEN 0 ELSE FAdd(TimeAt(k - 1, interval), interval)

\* a sampled signal whose visual score jumps at sample cut (no jump: cut = 0)
CutSignal(cfg, cut) ==
  [i \in 1..NumSamples |->
     [time |-> TimeAt(i - 1, Interval(cfg)), value |-> 0, isSceneCut |-> FALSE,
      raw |-> [v |-> IF i = 1 THEN 0 ELSE IF i - 1 = cut THEN FromInt(12) ELSE FromInt(1),
               a |-> 0]]]

PeakSlots == {i \in 1..(NumSamples - 2) : i % 2 = 1}
CutSlots == 0..(NumSamples - 1)

PeaksOf(data, slots) ==
  PeaksAt([i \in 1..Len(data) |-> [data[i] EXCEPT !.value = FromInt(100)]],
          SelectSeq([i \in 1..(NumSamples - 2) |-> i], LAMBDA i : i \in slots))

LoopConfigs ==
  {[DefaultConfig EXCEPT !.samplingRate = r, !.minLoopDuration = lo,
                         !.maxLoopDuration = hi, !.detectSceneChanges = d,
                         !.detectionMode = m] :
     r \in {2, 7, 10}, lo \in {Dec(5, 10), FromInt(1)}, hi \in {FromInt(1), FromInt(2)},
     d \in BOOLEAN, m \in {"reps", "sets"}}

InitLoops ==
  /\ appState = ANALYZING /\ file = "a.mp4" /\ loops = <<>> /\ motionData = <<>>
  /\ progress = 0 /\ logs = <<>>
  /\ video = [duration |-> 0, currentTime |-> 0, seeking |-> FALSE]
  /\ t = 0 /\ combinedData = <<>> /\ prevFrameData = <<>> /\ audioBuffer = <<>>
  /\ atomicLoops = <<>> /\ finalLoops = <<>> /\ resultLoopsWithThumbs = <<>>
  /\ run = NoRun
  /\ pc = "peaks"
  /\ config \in LoopConfigs
  /\ \E cut \in CutSlots : detrendedData = SceneCuts(CutSignal(config, cut), config)
  /\ \E slots \in SUBSET PeakSlots :
       /\ Cardinality(slots) >= 2
       /\ peaks = PeaksOf(detrendedData, slots)

LoopVars ==
  <<appState, file, config, loops, motionData, progress, logs, video, t,
    combinedData, prevFrameData, audioBuffer, detrendedData, peaks,
    resultLoopsWithThumbs, run>>

AtomicStage ==
  /\ pc = "peaks"
  /\ atomicLoops' = AtomicLoops(peaks, detrendedData, config)
  /\ pc' = "atomic"
  /\ UNCHANGED finalLoops
  /\ UNCHANGED LoopVars

FinalStage ==
  /\ pc = "atomic"
  /\ finalLoops' = FinalLoops(atomicLoops, detrendedData, config, 1)
  /\ pc' = "final"
  /\ UNCHANGED atomicLoops
  /\ UNCHANGED LoopVars

NextLoops == AtomicStage \/ FinalStage

SpecLoops == InitLoops /\ [][NextLoops]_vars

\* ------------------------------------- the loop stages on literal times
\* Stages 3-4 on peaks at decimal instants: MergeSamples samples, 10 per
\* second, none flagged, with peaks at any two or more of the instants
\* PeakTenths (in tenths of a second).  With maxLoopDuration 2 the peaks at
\* 0, 1, 1.2, 2.1, 5.0 and 5.9 s give the atomic loops [0,1], [1.2,2.1], [5.0,5.9].
MergeSamples == 60

PeakTenths == {0, 10, 12, 21, 30, 50, 59}

MergeSignal ==
  [i \in 1..MergeSamples |->
     [time |-> Dec(i - 1, 10), value |-> FromInt(20 + 5 * ((i - 1) % 7)),
      isSceneCut |-> FALSE, raw |-> [v |-> FromInt(1), a |-> 0]]]

MergeConfigs ==
  {[DefaultConfig EXCEPT !.maxLoopDuration = hi, !.detectSceneChanges = d,
                         !.detectionMode = m] :
     hi \in {FromInt(2), FromInt(5)}, d \in BOOLEAN, m \in {"reps", "sets"}}

InitMerge ==
  /\ appState = ANALYZING /\ file = "a.mp4" /\ loops = <<>> /\ motionData = <<>>
  /\ progress = 0 /\ logs = <<>>
  /\ video = [duration |-> 0, currentTime |-> 0, seeking |-> FALSE]
  /\ t = 0 /\ combinedData = <<>> /\ prevFrameData = <<>> /\ audioBuffer = <<>>
  /\ atomicLoops = <<>> /\ finalLoops = <<>> /\ resultLoopsWithThumbs = <<>>
  /\ run = NoRun
  /\ pc = "peaks"
  /\ config \in MergeConfigs
  /\ detrendedData = MergeSignal
  /\ \E slots \in SUBSET PeakTenths :
       /\ Cardinality(slots) >= 2
       /\ peaks = PeaksAt(detrendedData,
                          SelectSeq([i \in 1..MergeSamples |-> i - 1],
                                    LAMBDA i : i \in slots))

SpecMerge == InitMerge /\ [][NextLoops]_vars

\* ------------------------------------------- removal from the result list
\* The final units of the merge signal are delivered to the caller and the
\* user removes loops from the list one by one.  The id of a unit is a string
\* built from Date.now() and the index or the start time; Number-to-string
\* maps distinct numbers to distinct strings and the parts are separated, so
\* the id is held as the tuple of its parts.  The selection highlight
\* (selectedLoopId) is not part of the state here.

\* the thumbnail loop and onLoopsDetected(resultLoopsWithThumbs), lines 465-486
DeliverStage ==
  /\ pc = "final"
  /\ loops' = [i \in 1..Len(finalLoops) |->
                [finalLoops[i] EXCEPT !.thumbnail = <<"jpeg", ThumbTime(finalLoops[i])>>]]
  /\ appState' = READY
  /\ pc' = "idle"
  /\ UNCHANGED <<file, config, motionData, progress, logs, video, t, combinedData,
                 prevFrameData, audioBuffer, detrendedData, peaks, atomicLoops,
                 finalLoops, resultLoopsWithThumbs, run>>

\* setLoops(prev => prev.filter(l => l.id !== id))
handleRemoveLoop(id) ==
  /\ pc = "idle"
  /\ \E k \in 1..Len(loops) : loops[k].id = id
  /\ loops' = SelectSeq(loops, LAMBDA l : l.id # id)
  /\ UNCHANGED <<appState, file, config, motionData, progress, logs, video>>
  /\ UNCHANGED RunVars

NextRemove ==
  \/ AtomicStage
  \/ FinalStage
  \/ DeliverStage
  \/ \E k \in 1..Len(loops) : handleRemoveLoop(loops[k].id)

SpecRemove == InitMerge /\ [][NextRemove]_vars

\* ----------------------------------------- the signal stages on their own
\* Fusion, scene cuts, detrending and peak detection (lines 313-396) applied to
\* every raw signal of SignalLen samples with visual scores 0 or 1; the
\* first sample has no previous frame, so its score is 0.  SensitivityStage
\* detects the peaks of the same signal again under another sensitivity.
RawSignals ==
  {[i \in 1..SignalLen |->
      [time |-> TimeAt(i - 1, Interval(DefaultConfig)), value |-> 0,
       isSceneCut |-> FALSE,
       raw |-> [v |-> IF i = 1 THEN 0 ELSE FromInt(f[i]), a |-> 0]]] :
     f \in [2..SignalLen -> {0, 1}]}

Sensitivities == {1, 40, 100}

InitSignal ==
  /\ appState = ANALYZING /\ file = "a.mp4" /\ loops = <<>> /\ motionData = <<>>
  /\ progress = 0 /\ logs = <<>>
  /\ video = [duration |-> 0, currentTime |-> 0, seeking |-> FALSE]
  /\ t = 0 /\ prevFrameData = <<>> /\ audioBuffer = <<>>
  /\ detrendedData = <<>> /\ peaks = <<>>
  /\ atomicLoops = <<>> /\ finalLoops = <<>> /\ resultLoopsWithThumbs = <<>>
  /\ run = NoRun
  /\ pc = "raw"
  /\ \E s \in Sensitivities : config = [DefaultConfig EXCEPT !.sensitivity = s]
  /\ combinedData \in RawSignals

SignalVars ==
  <<appState, file, loops, motionData, progress, logs, video, t, combinedData,
    prevFrameData, audioBuffer, atomicLoops, finalLoops, resultLoopsWithThumbs>>

SignalStage ==
  /\ pc = "raw"
  /\ detrendedData' = Detrend(SceneCuts(Fuse(combinedData, config), config), config)
  /\ peaks' = Peaks(Smooth(detrendedData', config), config)
  /\ pc' = "peaks"
  /\ UNCHANGED <<config, run>>
  /\ UNCHANGED SignalVars

\* run keeps the configuration and the peak count of the detection before
SensitivityStage(s) ==
  /\ pc = "peaks"
  /\ s # config.sensitivity
  /\ config' = [config EXCEPT !.sensitivity = s]
  /\ peaks' = Peaks(Smooth(detrendedData, config'), config')
  /\ run' = [run EXCEPT !.config = config, !.peaks = Len(peaks)]
  /\ UNCHANGED <<pc, detrendedData>>
  /\ UNCHANGED SignalVars

NextSignal == SignalStage \/ \E s \in Sensitivities : SensitivityStage(s)

SpecSignal == InitSignal /\ [][NextSignal]_vars

\* ------------------------------------------------- the fusion on its own
\* Lines 313-353 applied to every sequence of FuseLen samples whose raw visual
\* score is 0, 1 or 40 and whose raw audio score is 0 or 90, under every
\* audioWeight of AudioWeights; detrendedData is the copy of processedData
\* made at line 353.
FuseLen == 3

RawPairs ==
  {[i \in 1..FuseLen |->
      [time |-> TimeAt(i - 1, Interval(DefaultConfig)), value |-> 0,
       isSceneCut |-> FALSE,
       raw |-> [v |-> FromInt(f[i][1]), a |-> FromInt(f[i][2])]]] :
     f \in [1..FuseLen -> {0, 1, 40} \X {0, 90}]}

AudioWeights == {0, 20, 50, 100}

InitFuse ==
  /\ appState = ANALYZING /\ file = "a.mp4" /\ loops = <<>> /\ motionData = <<>>
  /\ progress = 0 /\ logs = <<>>
  /\ video = [duration |-> 0, currentTime |-> 0, seeking |-> FALSE]
  /\ t = 0 /\ prevFrameData = <<>> /\ audioBuffer = <<>>
  /\ detrendedData = <<>> /\ peaks = <<>>
  /\ atomicLoops = <<>> /\ finalLoops = <<>> /\ resultLoopsWithThumbs = <<>>
  /\ run = NoRun
  /\ pc = "raw"
  /\ \E w \in AudioWeights : config = [DefaultConfig EXCEPT !.audioWeight = w]
  /\ combinedData \in RawPairs

FuseStage ==
  /\ pc = "raw"
  /\ detrendedData' = SceneCuts(Fuse(combinedData, config), config)
  /\ pc' = "fused"
  /\ UNCHANGED <<config, run, peaks>>
  /\ UNCHANGED SignalVars

SpecFuse == InitFuse /\ [][FuseStage]_vars

\* ------------------------------------------- the detrending stage alone
\* Fused signals of a clip whose raw scores are the same at every sample: the
\* state after the fusion, for every length up to DetrendLen.
DetrendLen == 8

SteadyScores == {<<1, 0>>, <<0, 90>>, <<40, 90>>}
SteadyWeights == {0, 15, 20, 50}
SamplingRates == {1, 2, 5, 10}

SteadyData(n, score, cfg) ==
  [i \in 1..n |->
     [time |-> TimeAt(i - 1, Interval(cfg)), value |-> 0, isSceneCut |-> FALSE,
      raw |-> [v |-> FromInt(score[1]), a |-> FromInt(score[2])]]]

InitDetrend ==
  /\ appState = ANALYZING /\ file = "a.mp4" /\ loops = <<>> /\ motionData = <<>>
  /\ progress = 0 /\ logs = <<>>
  /\ video = [duration |-> 0, currentTime |-> 0, seeking |-> FALSE]
  /\ t = 0 /\ prevFrameData = <<>> /\ audioBuffer = <<>>
  /\ peaks = <<>> /\ atomicLoops = <<>> /\ finalLoops = <<>>
  /\ resultLoopsWithThumbs = <<>>
  /\ run = NoRun
  /\ pc = "fused"
  /\ \E w \in SteadyWeights, r \in SamplingRates :
       config = [DefaultConfig EXCEPT !.audioWeight = w, !.samplingRate = r]
  /\ \E n \in 1..DetrendLen, score \in SteadyScores :
       combinedData = SteadyData(n, score, config)
  /\ detrendedData = SceneCuts(Fuse(combinedData, config), config)

\* 1.2 Detrending, then onMotionDataUpdate(detrendedData)
DetrendStage ==
  /\ pc = "fused"
  /\ detrendedData' = Detrend(detrendedData, config)
  /\ motionData' = detrendedData'
  /\ pc' = "detrended"
  /\ UNCHANGED <<appState, file, config, loops, progress, logs, video, t,
                 combinedData, prevFrameData, audioBuffer, peaks, atomicLoops,
                 finalLoops, resultLoopsWithThumbs, run>>

SpecDetrend == InitDetrend /\ [][DetrendStage]_vars

\* ------------------------------------------- the smoothing stage alone
\* Stage 2 on every detrended signal of SmoothLen samples with values 0, 1
\* or 3, under every smoothingWindow of SmoothingWindows; the peaks carry the
\* smoothed values.
SmoothLen == 5

SmoothingWindows == 0..3

SmoothSignals ==
  {[i \in 1..SmoothLen |->
      [time |-> TimeAt(i - 1, Interval(DefaultConfig)), value |-> FromInt(f[i]),
       isSceneCut |-> FALSE, raw |-> [v |-> FromInt(f[i]), a |-> 0]]] :
     f \in [1..SmoothLen -> {0, 1, 3}]}

InitSmooth ==
  /\ appState = ANALYZING /\ file = "a.mp4" /\ loops = <<>> /\ motionData = <<>>
  /\ progress = 0 /\ logs = <<>>
  /\ video = [duration |-> 0, currentTime |-> 0, seeking |-> FALSE]
  /\ t = 0 /\ combinedData = <<>> /\ prevFrameData = <<>> /\ audioBuffer = <<>>
  /\ peaks = <<>> /\ atomicLoops = <<>> /\ finalLoops = <<>>
  /\ resultLoopsWithThumbs = <<>>
  /\ run = NoRun
  /\ pc = "detrended"
  /\ \E w \in SmoothingWindows :
       config = [DefaultConfig EXCEPT !.smoothingWindow = w, !.sensitivity = 1]
  /\ detrendedData \in SmoothSignals

\* 2. PEAK DETECTION: smoothing, threshold, peak loop
SmoothStage ==
  /\ pc = "detrended"
  /\ peaks' = Peaks(Smooth(detrendedData, config), config)
  /\ pc' = "peaks"
  /\ UNCHANGED <<appState, file, config, loops, motionData, progress, logs, video,
                 t, combinedData, prevFrameData, audioBuffer, detrendedData,
                 atomicLoops, finalLoops, resultLoopsWithThumbs, run>>

SpecSmooth == InitSmooth /\ [][SmoothStage]_vars

\* ---------------------------------------------------------------- claims
\* the index of the sample taken at time
SampleIndex(data, time) == CHOOSE k \in 0..(Len(data) - 1) : data[k + 1].time = time

\* the flagged sample indices strictly inside the span of unit
CutsInside(data, unit) ==
  {k \in 0..(Len(data) - 1) :
     /\ data[k + 1].isSceneCut
     /\ SampleIndex(data, unit.startTime) < k
     /\ k < SampleIndex(data, unit.endTime)}

\* C1: with detectSceneChanges enabled, no final unit (rep or merged set) has a
\* sample flagged isSceneCut strictly between the sample of its startTime and
\* the sample of its endTime.
C1_NoUnitSpansCut ==
  (pc = "final" /\ config.detectSceneChanges) =>
    \A u \in 1..Len(finalLoops) : CutsInside(detrendedData, finalLoops[u]) = {}

\* two sets are separated by a flagged sample although they are less than 2 s apart
C1_Witness ==
  /\ pc = "final" /\ config.detectSceneChanges /\ config.detectionMode = "sets"
  /\ Len(finalLoops) >= 2
  /\ FSub(finalLoops[2].startTime, finalLoops[1].endTime) < FromInt(2)
  /\ \E k \in 0..(Len(detrendedData) - 1) :
       /\ detrendedData[k + 1].isSceneCut
       /\ SampleIndex(detrendedData, finalLoops[1].endTime) <= k
       /\ k < SampleIndex(detrendedData, finalLoops[2].startTime)

\* the pair (peaks[i], peaks[i+1]) has no flagged sample from the first peak
\* up to the second
PairClean(i) ==
  \A k \in peaks[i].index..(peaks[i + 1].index - 1) : ~detrendedData[k + 1].isSceneCut

PairDuration(i) == FSub(peaks[i + 1].time, peaks[i].time)

PairEmitted(i) ==
  \E a \in 1..Len(atomicLoops) :
     /\ atomicLoops[a].startTime = peaks[i].time
     /\ atomicLoops[a].endTime = peaks[i + 1].time

RECURSIVE SumRepCount(_)
SumRepCount(units) ==
  IF units = <<>> THEN 0 ELSE Head(units).repCount + SumRepCount(Tail(units))

\* the final units whose span holds atomic loop a
UnitsHolding(a) ==
  {u \in 1..Len(finalLoops) :
     /\ finalLoops[u].startTime <= atomicLoops[a].startTime
     /\ atomicLoops[a].endTime <= finalLoops[u].endTime}

\* C3: from N atomic loops, reps mode yields N final units of repCount 1; sets
\* mode yields at most N final units whose repCount sum to N, every atomic loop
\* lying in exactly one of them (one atomic loop: one set of 1).
C3_RepsSetsDuality ==
  pc = "final" =>
    IF config.detectionMode = "reps"
    THEN /\ Len(finalLoops) = Len(atomicLoops)
         /\ \A u \in 1..Len(finalLoops) : finalLoops[u].repCount = 1
    ELSE /\ Len(finalLoops) <= Len(atomicLoops)
         /\ SumRepCount(finalLoops) = Len(atomicLoops)
         /\ \A a \in 1..Len(atomicLoops) : Cardinality(UnitsHolding(a)) = 1
         /\ Len(atomicLoops) = 1 =>
              Len(finalLoops) = 1 /\ finalLoops[1].repCount = 1

\* three atomic loops become a set of two and a set of one
C3_Witness ==
  /\ pc = "final" /\ config.detectionMode = "sets"
  /\ Len(atomicLoops) = 3
  /\ Len(finalLoops) = 2
  /\ {finalLoops[1].repCount, finalLoops[2].repCount} = {1, 2}

\* the samples from the end of atomic loop a up to the start of the next one
GapSamples(a) ==
  SampleIndex(detrendedData, atomicLoops[a].endTime)
    ..(SampleIndex(detrendedData, atomicLoops[a + 1].startTime) - 1)

GapAllows(a) ==
  /\ FSub(atomicLoops[a + 1].startTime, atomicLoops[a].endTime)
       < Max(FromInt(2), FMul(atomicLoops[a].duration, FromInt(3)))
  /\ config.detectSceneChanges =>
       \A k \in GapSamples(a) : ~detrendedData[k + 1].isSceneCut

\* C4: in sets mode an atomic loop joins the group of its predecessor if and
\* only if the gap between them is strictly less than max(2.0, 3.0 x the
\* predecessor's duration) and, with detection enabled, no flagged sample lies
\* in the gap; otherwise the group is closed and the loop starts a new one.
C4_SetExtension ==
  (pc = "final" /\ config.detectionMode = "sets") =>
    \A a \in 1..(Len(atomicLoops) - 1) :
       IF GapAllows(a)
       THEN UnitsHolding(a) = UnitsHolding(a + 1)
       ELSE /\ \E u \in 1..Len(finalLoops) :
                 finalLoops[u].endTime = atomicLoops[a].endTime
            /\ \E u \in 1..Len(finalLoops) :
                 finalLoops[u].startTime = atomicLoops[a + 1].startTime

\* a gap equal to maxGap, free of flagged samples, splits two loops
C4_Witness ==
  /\ pc = "final" /\ config.detectionMode = "sets"
  /\ \E a \in 1..(Len(atomicLoops) - 1) :
       /\ FSub(atomicLoops[a + 1].startTime, atomicLoops[a].endTime)
            = Max(FromInt(2), FMul(atomicLoops[a].duration, FromInt(3)))
       /\ \A k \in GapSamples(a) : ~detrendedData[k + 1].isSceneCut
       /\ UnitsHolding(a) # UnitsHolding(a + 1)

PeakIndices(pk) == {pk[i].index : i \in 1..Len(pk)}

ErrorLogs(lg, from) == {i \in (from + 1)..Len(lg) : lg[i].level = "error"}

\* C5: the sample times start at 0, increase strictly, differ by exactly
\* 1/samplingRate from one sample to the next, and stay below the duration.
C5_ExactSteps ==
  \A i \in 1..Len(combinedData) :
     /\ i = 1 => combinedData[i].time = 0
     /\ i > 1 => combinedData[i].time - combinedData[i - 1].time = Interval(run.config)
     /\ combinedData[i].time < video.duration

\* C5 as the code has it: the sample times start at 0, each later one is the
\* rounded sum of its predecessor and the interval 1/samplingRate, they increase
\* strictly, and all are below the duration.
C5_SampleTimes ==
  \A i \in 1..Len(combinedData) :
     /\ i = 1 => combinedData[i].time = 0
     /\ i > 1 => /\ combinedData[i].time
                      = FAdd(combinedData[i - 1].time, Interval(run.config))
                 /\ combinedData[i].time > combinedData[i - 1].time
     /\ combinedData[i].time < video.duration

\* a run at 10 samples per second has taken a step that is not the interval
C5_Witness ==
  /\ run.outcome = "running" /\ run.config.samplingRate = 10
  /\ \E i \in 2..Len(combinedData) :
       combinedData[i].time - combinedData[i - 1].time # Interval(run.config)

\* a step of this behaviour ends a run that did not complete
EndsIncomplete ==
  /\ run'.outcome \in {"failed", "setup"}
  /\ run.outcome = "running" \/ run'.no # run.no

\* C7: when a run ends without completing, loops and motion data are what they
\* were before the run started.
C7_NoPartialResult ==
  [][EndsIncomplete => loops' = run'.loopsBefore /\ motionData' = run'.motionBefore]_vars

\* C8: after an exception in the capture of a sample, one error-level log has
\* been added, appState is READY, and neither onLoopsDetected nor
\* onMotionDataUpdate was called for the run.
C8_CaptureExceptionHandled ==
  run.thrown = "onSeek" =>
    /\ appState = READY
    /\ Cardinality(ErrorLogs(logs, run.logsBefore)) = 1
    /\ run.loopsDetected = 0 /\ run.motionDataUpdates = 0
    /\ loops = run.loopsBefore /\ motionData = run.motionBefore

\* C9: a run started without a 2D context ends in the same step: no seek is
\* issued, appState is READY before and after, loops and motion data are
\* unchanged, and exactly one error-level log is added.
C9_NoContextAborts ==
  [][(run'.no # run.no /\ run'.outcome = "setup") =>
       /\ appState = READY /\ appState' = READY
       /\ loops' = loops /\ motionData' = motionData
       /\ video' = video /\ run'.seeks = 0 /\ pc' = "idle"
       /\ Cardinality(ErrorLogs(logs', Len(logs))) = 1]_vars

\* the results of a completed run are still held after a run without context
C9_Witness ==
  /\ run.outcome = "setup" /\ run.no = 2 /\ appState = READY
  /\ Len(loops) > 0 /\ Len(motionData) > 0
  /\ logs[Len(logs)].level = "error"

\* the run's position: it grows with every step the run takes
Rank ==
  IF pc = "yield" THEN 2 * Len(combinedData)
  ELSE IF pc = "seek" THEN 2 * Len(combinedData) + 1
  ELSE IF pc = "thumb" THEN 2 * Len(combinedData) + 2 + Len(resultLoopsWithThumbs)
  ELSE 0

AudioFailedRun == run.audioFailed /\ run.outcome = "running"

\* C10: after the audio decoding failed the run goes on: a warn-level log and
\* no error-level log was added, every sample's audio score is 0, the run is
\* never blocked (it waits for a seek in progress or a timeout), each of its
\* steps (a key press on a settings control is not one) advances it, and it ends only by completing (results delivered,
\* appState READY) or by an exception thrown in a later step.
C10_AudioFailureDegrades ==
  /\ [](AudioFailedRun =>
          /\ appState = ANALYZING
          /\ \E i \in (run.logsBefore + 1)..Len(logs) : logs[i].level = "warn"
          /\ ErrorLogs(logs, run.logsBefore) = {}
          /\ \A i \in 1..Len(combinedData) : combinedData[i].raw.a = 0
          /\ pc = "yield" \/ (pc \in {"seek", "thumb"} /\ video.seeking))
  /\ [][(AudioFailedRun /\ ~UserKeyStep) =>
          IF run'.outcome = "running" THEN Rank' > Rank
          ELSE \/ run'.thrown # "none"
               \/ /\ run'.outcome = "complete" /\ appState' = READY
                  /\ run'.loopsDetected = 1 /\ run'.motionDataUpdates = 1
                  /\ Len(loops') = Len(finalLoops)
                  /\ \A i \in 1..Len(finalLoops) :
                        [loops'[i] EXCEPT !.thumbnail = <<>>] = finalLoops[i]
                  /\ ErrorLogs(logs', run.logsBefore) = {}]_vars

\* a run whose audio decoding failed has completed and delivered loops
C10_Witness ==
  /\ run.audioFailed /\ run.outcome = "complete" /\ appState = READY
  /\ run.samples > 0 /\ Len(loops) > 0

\* the step in which the run's signal is processed (lines 313-463)
SignalProcessed == run.outcome = "running" /\ run'.motionDataUpdates = 1

\* C11: a run whose signal yields no peaks, or no atomic loops, completes in
\* the step that processes the signal: the caller receives an empty list, the
\* last log is success-level, no error-level log was added, appState is READY.
C11_EmptyResultCompletes ==
  [][(SignalProcessed /\ (run'.peaks = 0 \/ run'.atomicLoops = 0)) =>
       /\ run'.outcome = "complete" /\ run'.loopsDetected = 1
       /\ loops' = <<>>
       /\ appState' = READY
       /\ logs'[Len(logs')].level = "success"
       /\ ErrorLogs(logs', run.logsBefore) = {}]_vars

\* a run over a signal without peaks has completed with an empty result
C11_Witness ==
  /\ run.outcome = "complete" /\ run.samples > 0 /\ run.peaks = 0
  /\ loops = <<>> /\ appState = READY
  /\ logs[Len(logs)].level = "success"

\* C12: no seek is issued while another one is in progress, and the samples
\* recorded are in strictly increasing time order.
C12_OneSeekInFlight ==
  /\ ~run.overlapped
  /\ \A i \in 2..Len(combinedData) : combinedData[i - 1].time < combinedData[i].time

\* a run has started and has neither completed nor been caught
InFlight == run.outcome \in {"running", "stalled"}

\* C13: a run is in flight exactly while appState is ANALYZING, and a run
\* starts only from READY, with no run in flight, and sets ANALYZING (a run
\* without a 2D context is over, and back at READY, within the same step).
C13_SingleRun ==
  /\ [](InFlight <=> appState = ANALYZING)
  /\ [](pc # "idle" => InFlight)
  /\ [][run'.no # run.no =>
          /\ appState = READY /\ ~InFlight /\ pc = "idle"
          /\ run'.no = run.no + 1
          /\ IF run'.outcome = "setup" THEN appState' = READY
             ELSE appState' = ANALYZING /\ run'.outcome = "running"]_vars

\* a second run is in flight after the first one has completed with loops
C13_Witness ==
  /\ run.no = 2 /\ run.outcome = "running" /\ appState = ANALYZING /\ pc = "seek"
  /\ Len(loops) > 0

\* C14: when a run has completed, the last progress value reported is 100.
C14_TerminalProgress == run.outcome = "complete" => progress = FromInt(100)

\* C15: for every sample, normV and normA lie in [0, 1] and the fused value
\* lies in [0, 255], whatever the raw scores and the audioWeight.
C15_NormalizedBounds ==
  pc = "fused" =>
    \A i \in 1..Len(combinedData) :
       /\ 0 <= Norm(combinedData[i].raw.v, AvgV(combinedData))
       /\ Norm(combinedData[i].raw.v, AvgV(combinedData)) <= FromInt(1)
       /\ 0 <= Norm(combinedData[i].raw.a, AvgA(combinedData))
       /\ Norm(combinedData[i].raw.a, AvgA(combinedData)) <= FromInt(1)
       /\ 0 <= detrendedData[i].value
       /\ detrendedData[i].value <= FromInt(255)

\* an outlier is clamped to 1 and fused to 255 beside an all-zero audio track
C15_Witness ==
  /\ pc = "fused"
  /\ \A i \in 1..Len(combinedData) : combinedData[i].raw.a = 0
  /\ \E i \in 1..Len(combinedData) :
       /\ FDiv(combinedData[i].raw.v, FMul(AvgV(combinedData), FromInt(2))) > FromInt(1)
       /\ detrendedData[i].value = FromInt(255)

\* ------------------------------------------------------------------ C16
SilentAudio(data, cfg) ==
  cfg.audioWeight = 0 \/ \A i \in 1..Len(data) : data[i].raw.a = 0

\* C16 as stated: a clip of solid-colour frames has visualScore 0 at every
\* sample and its run produces no atomic loop
C16_SolidClipNoLoops ==
  [][(SignalProcessed /\ Solid(run.file))
       => /\ \A i \in 1..Len(motionData') : motionData'[i].raw.v = 0
          /\ run'.atomicLoops = 0]_vars

\* C16: a clip of solid-colour frames has visualScore 0 at every sample, and
\* its run finds no peak and produces no atomic loop, at every sensitivity,
\* whenever the audio adds nothing to the fused signal (audioWeight 0, or an
\* audio score of 0 at every sample)
C16_SolidClipSilentNoLoops ==
  /\ [](Solid(run.file) => \A i \in 1..Len(combinedData) : combinedData[i].raw.v = 0)
  /\ [][(SignalProcessed /\ Solid(run.file))
          => /\ \A i \in 1..Len(motionData') : motionData'[i].raw.v = 0
             /\ SilentAudio(motionData', run.config)
                  => run'.peaks = 0 /\ run'.atomicLoops = 0]_vars

C16_Witness ==
  /\ run.outcome = "complete" /\ run.file = "c.mp4" /\ file = "c.mp4"
  /\ run.config.sensitivity = 1 /\ run.config.audioWeight = 0 /\ ~run.audioFailed
  /\ run.samples = 21 /\ Len(motionData) = 21
  /\ \A i \in 1..21 : motionData[i].raw.v = 0 /\ motionData[i].value = 0
  /\ run.peaks = 0 /\ run.atomicLoops = 0 /\ loops = <<>>

CutBetween(i) ==
  \E k \in (peaks[i].index + 1)..(peaks[i + 1].index - 1) : detrendedData[k + 1].isSceneCut

\* C18: with scene-cut detection enabled, a consecutive peak pair with a
\* flagged sample strictly between its two peak indices yields no atomic loop,
\* whatever its duration.
C18_CutPairExcluded ==
  (pc \in {"atomic", "final"} /\ config.detectSceneChanges) =>
    \A i \in 1..(Len(peaks) - 1) : CutBetween(i) => ~PairEmitted(i)

\* a pair whose duration is within the bounds is dropped for the cut between
\* its peaks, while another pair of the same run is emitted
C18_Witness ==
  /\ pc = "atomic" /\ config.detectSceneChanges
  /\ \E i \in 1..(Len(peaks) - 1) :
       /\ CutBetween(i)
       /\ config.minLoopDuration <= PairDuration(i)
       /\ PairDuration(i) <= config.maxLoopDuration
       /\ ~PairEmitted(i)
  /\ Len(atomicLoops) > 0

\* ------------------------------------------------------------------ C19
\* the atomic loops are exactly the intervals iv, given in tenths of a second
LoopsAre(ls, iv) ==
  /\ Len(ls) = Len(iv)
  /\ \A i \in 1..Len(iv) : /\ ls[i].startTime = Dec(iv[i][1], 10)
                            /\ ls[i].endTime = Dec(iv[i][2], 10)

ThreeLoops ==
  /\ pc = "final" /\ config.detectionMode = "sets"
  /\ LoopsAre(atomicLoops, <<<<0, 10>>, <<12, 21>>, <<50, 59>>>>)

\* C19 as stated: the atomic loops [0,1], [1.2,2.1], [5.0,5.9] merge into a
\* single set with repCount 3
C19_SingleSetOfThree ==
  ThreeLoops => Len(finalLoops) = 1 /\ finalLoops[1].repCount = 3

\* C19: in sets mode with no scene cuts, of the atomic loops [0,1], [1.2,2.1],
\* [5.0,5.9] the second joins the first (gap 0.2 < max(2.0, 3 * 1.0)) and the
\* third does not join (gap 2.9 >= max(2.0, 3 * 0.9) = 2.7): the result is the
\* set [0,2.1] with repCount 2 followed by the set [5.0,5.9] with repCount 1.
C19_ThirdLoopSplits ==
  ThreeLoops =>
    /\ Len(finalLoops) = 2
    /\ LoopsAre(finalLoops, <<<<0, 21>>, <<50, 59>>>>)
    /\ finalLoops[1].repCount = 2 /\ finalLoops[2].repCount = 1
    /\ FSub(atomicLoops[2].startTime, atomicLoops[1].endTime)
         < Max(FromInt(2), FMul(atomicLoops[1].duration, FromInt(3)))
    /\ FSub(atomicLoops[3].startTime, atomicLoops[2].endTime)
         >= Max(FromInt(2), FMul(atomicLoops[2].duration, FromInt(3)))

C19_Witness ==
  /\ ThreeLoops /\ ~config.detectSceneChanges
  /\ Len(finalLoops) = 2
  /\ finalLoops[1].label = <<"Set of", 2, "Reps">>
  /\ finalLoops[2].label = <<"Set of", 1, "Reps">>

\* ------------------------------------------------------------------ C20
\* the atomic loops merged into the set u, in order
Members(u) ==
  SelectSeq(atomicLoops,
            LAMBDA l : u.startTime <= l.startTime /\ l.endTime <= u.endTime)

RECURSIVE SumBpm(_)
SumBpm(ls) == IF ls = <<>> THEN 0 ELSE Head(ls).bpm + SumBpm(Tail(ls))

MeanConfidence(ls) ==
  FDiv(FSumAcc(0, [i \in 1..Len(ls) |-> ls[i].confidence]), FromInt(Len(ls)))

MergedFrom(u, ms) ==
  /\ Len(ms) >= 1
  /\ u.startTime = ms[1].startTime
  /\ u.endTime = ms[Len(ms)].endTime
  /\ u.duration = FSub(u.endTime, u.startTime)
  /\ u.repCount = Len(ms)
  /\ 2 * u.bpm * Len(ms) - 2 * SumBpm(ms) \in (1 - Len(ms))..Len(ms)
  /\ u.confidence = MeanConfidence(ms)
  /\ u.label = <<"Set of", Len(ms), "Reps">>

\* C20: a merged set starts at its first member's startTime, ends at its last
\* member's endTime, lasts endTime - startTime, counts its members in
\* repCount, and has bpm = round(mean of the members' bpm) and confidence =
\* mean of the members' confidence.
C20_MergedRecord ==
  (pc = "final" /\ config.detectionMode = "sets") =>
    \A u \in 1..Len(finalLoops) : MergedFrom(finalLoops[u], Members(finalLoops[u]))

\* a set of three members that differ in bpm and in confidence
C20_Witness ==
  /\ pc = "final" /\ config.detectionMode = "sets"
  /\ \E u \in 1..Len(finalLoops) :
       LET ms == Members(finalLoops[u])
       IN  /\ Len(ms) = 3
           /\ ms[1].bpm # ms[2].bpm /\ ms[1].confidence # ms[2].confidence
           /\ finalLoops[u].bpm # ms[1].bpm
           /\ finalLoops[u].confidence # ms[1].confidence
           /\ MergedFrom(finalLoops[u], ms)

\* ------------------------------------------------------------------ C21
\* the raw samples behind a delivered motion signal
RawOf(data) ==
  [i \in 1..Len(data) |-> [data[i] EXCEPT !.value = 0, !.isSceneCut = FALSE]]

\* the signal stages of a run on raw samples under cfg
FusedOf(raw, cfg) == SceneCuts(Fuse(raw, cfg), cfg)
DetrendedOf(raw, cfg) == Detrend(FusedOf(raw, cfg), cfg)
PeaksOfRun(detrended, cfg) == Peaks(Smooth(detrended, cfg), cfg)
FinalOf(detrended, cfg, now) ==
  FinalLoops(AtomicLoops(PeaksOfRun(detrended, cfg), detrended, cfg), detrended, cfg, now)

VideoOnly(cfg) == [cfg EXCEPT !.audioWeight = 0]

\* the step of a run that processes its signal
ProcessingStep == run.motionDataUpdates = 0 /\ run'.motionDataUpdates = 1

\* C21: when audio decoding failed, the signal delivered and the final loops
\* equal those of the same run with audioWeight = 0
C21_FailedAudioWeightInert ==
  [][(ProcessingStep /\ run.audioFailed) =>
       /\ motionData' = DetrendedOf(RawOf(motionData'), VideoOnly(run.config))
       /\ (IF run'.outcome = "complete" THEN <<>> ELSE finalLoops')
            = FinalOf(motionData', VideoOnly(run.config), run.no)]_vars

\* ------------------------------------------------------------------ C22
\* the peak rule at 0-based index i of the smoothed signal sm
PeakRule(sm, th, i) ==
  /\ 0 < i /\ i < Len(sm) - 1
  /\ sm[i + 1].value > sm[i].value
  /\ sm[i + 1].value > sm[i + 2].value
  /\ sm[i + 1].value > th

PeaksFollowRule(sm, th) ==
  /\ PeakIndices(peaks) = {i \in 0..(Len(sm) - 1) : PeakRule(sm, th, i)}
  /\ \A j \in 1..Len(peaks) :
        /\ peaks[j].value = sm[peaks[j].index + 1].value
        /\ peaks[j].time = sm[peaks[j].index + 1].time
        /\ j > 1 => peaks[j - 1].index < peaks[j].index
  /\ 0 \notin PeakIndices(peaks) /\ (Len(sm) - 1) \notin PeakIndices(peaks)
  /\ \A i \in 0..(Len(sm) - 2) :
        sm[i + 1].value = sm[i + 2].value
          => i \notin PeakIndices(peaks) /\ (i + 1) \notin PeakIndices(peaks)

\* C22: index i is a detected peak if and only if it is strictly interior,
\* its smoothed value exceeds both neighbours and exceeds peakThreshold; the
\* first and the last sample are never peaks, and neither of two equal
\* neighbouring values is a peak.
C22_PeakRule ==
  pc = "peaks" =>
    PeaksFollowRule(Smooth(detrendedData, config),
                    PeakThreshold(Smooth(detrendedData, config), config))

FlatTopAbove(sm, th) ==
  \E i \in 1..(Len(sm) - 2) :
     /\ sm[i + 1].value = sm[i + 2].value /\ sm[i + 1].value > th
     /\ sm[i + 1].value > sm[i].value

\* a signal with a peak and with a flat top above the threshold that is none
C22_Witness ==
  /\ pc = "peaks" /\ Len(peaks) >= 1
  /\ FlatTopAbove(Smooth(detrendedData, config),
                  PeakThreshold(Smooth(detrendedData, config), config))

\* ------------------------------------------------------------------ C23
PairInBounds(i) ==
  config.minLoopDuration <= PairDuration(i) /\ PairDuration(i) <= config.maxLoopDuration

\* C23: with scene-cut detection enabled, a peak pair whose duration is within
\* the bounds is rejected if and only if a flagged sample lies strictly
\* between the two peak indices; a flag on the start peak's or on the end
\* peak's own index does not reject it.
C23_RejectedIffCutBetween ==
  (pc \in {"atomic", "final"} /\ config.detectSceneChanges) =>
    \A i \in 1..(Len(peaks) - 1) :
       PairInBounds(i) => (~PairEmitted(i) <=> CutBetween(i))

\* ------------------------------------------------------------------ C24
\* the mean of the integer-valued signal over max(0, i-w) .. min(n-1, i+w),
\* 0-based i
RECURSIVE IntSum(_, _, _)
IntSum(data, lo, hi) ==
  IF lo > hi THEN 0 ELSE Floor(data[lo + 1].value) + IntSum(data, lo + 1, hi)

MeanAround(data, i, w) ==
  FDiv(FromInt(IntSum(data, Max(0, i - w), Min(Len(data) - 1, i + w))),
       FromInt(Min(Len(data) - 1, i + w) - Max(0, i - w) + 1))

SmoothedAsConfigured(sm, data, w) ==
  /\ Len(sm) = Len(data)
  /\ \A i \in 0..(Len(data) - 1) : sm[i + 1].value = MeanAround(data, i, w)
  /\ w = 0 => sm = data
  /\ \A j \in 1..Len(peaks) : peaks[j].value = MeanAround(data, peaks[j].index, w)

\* C24: for every smoothingWindow w >= 0 the smoothed value at index i is the
\* mean of the signal over max(0, i-w) .. min(n-1, i+w); with w = 0 the
\* smoothed signal equals its input.
C24_SmoothingWindow ==
  pc = "peaks" =>
    SmoothedAsConfigured(Smooth(detrendedData, config), detrendedData,
                         config.smoothingWindow)

\* ------------------------------------------------------------------ C25
\* the units are in increasing time order and do not overlap
Ordered(units) ==
  /\ \A u \in 1..Len(units) : units[u].startTime < units[u].endTime
  /\ \A u \in 2..Len(units) :
        /\ units[u - 1].startTime < units[u].startTime
        /\ units[u - 1].endTime <= units[u].startTime

\* C25: in both modes the final units are in strictly increasing startTime
\* order and do not overlap: each has startTime < endTime, and each ends no
\* later than the next one starts.
C25_UnitsOrdered ==
  /\ Ordered(atomicLoops)
  /\ Ordered(finalLoops)
  /\ Ordered(resultLoopsWithThumbs)
  /\ Ordered(loops)

\* three or more units, one ending where the next starts and one followed by a gap
C25_Witness ==
  /\ pc = "final" /\ Len(finalLoops) >= 3
  /\ \E u \in 2..Len(finalLoops) : finalLoops[u - 1].endTime = finalLoops[u].startTime
  /\ \E u \in 2..Len(finalLoops) : finalLoops[u - 1].endTime < finalLoops[u].startTime

\* ------------------------------------------------------------------ C26
\* the set u holds the atomic loop l
Holds(u, l) == u.startTime <= l.startTime /\ l.endTime <= u.endTime

\* a candidate pair lying between the end of set u and the start of set v was
\* not accepted
RejectedBetween(u, v) ==
  \E i \in 1..(Len(peaks) - 1) :
     /\ u.endTime <= peaks[i].time /\ peaks[i + 1].time <= v.startTime
     /\ ~PairEmitted(i)

\* C26: in sets mode two accepted atomic loops that share a bounding peak are
\* in the same set, and between two consecutive sets at least one candidate
\* peak pair was rejected.
C26_SharedPeakSameSet ==
  (pc = "final" /\ config.detectionMode = "sets") =>
    /\ \A a \in 2..Len(atomicLoops) :
          atomicLoops[a - 1].endTime = atomicLoops[a].startTime =>
            \E u \in 1..Len(finalLoops) :
               Holds(finalLoops[u], atomicLoops[a - 1]) /\ Holds(finalLoops[u], atomicLoops[a])
    /\ \A u \in 2..Len(finalLoops) : RejectedBetween(finalLoops[u - 1], finalLoops[u])

\* with scene-cut detection on, one set holds loops sharing a peak and another
\* set follows it
C26_Witness ==
  /\ pc = "final" /\ config.detectionMode = "sets" /\ config.detectSceneChanges
  /\ \E k \in 1..Len(detrendedData) : detrendedData[k].isSceneCut
  /\ Len(finalLoops) >= 2
  /\ \E a \in 2..Len(atomicLoops) :
       /\ atomicLoops[a - 1].endTime = atomicLoops[a].startTime
       /\ Holds(finalLoops[1], atomicLoops[a - 1]) /\ Holds(finalLoops[1], atomicLoops[a])
  /\ RejectedBetween(finalLoops[1], finalLoops[2])

\* ------------------------------------------------------------------ C27
\* the transitions of appState that the handlers allow
AppStateFlow ==
  /\ (appState # ANALYZING /\ appState' = ANALYZING) => appState = READY
  /\ (appState = ANALYZING /\ appState' # ANALYZING) => appState' = READY
  /\ (appState # LOADING_VIDEO /\ appState' = LOADING_VIDEO) =>
        \E f \in Files : HandleFileUpload(f)
  /\ (appState = LOADING_VIDEO /\ appState' # LOADING_VIDEO) =>
        (appState' = READY /\ HandleLoadedMetadata)
  /\ (appState # IDLE) => appState' # IDLE

\* C27: ANALYZING is entered only from READY and left only to READY,
\* LOADING_VIDEO is entered only by a file change and left only to READY on
\* metadata load, IDLE is never re-entered, and while the state is ANALYZING or
\* LOADING_VIDEO neither the selected file nor the configuration changes.
C27_AppStateRelation ==
  [][/\ AppStateFlow
     /\ isBlocking => (file' = file /\ config' = config)]_vars

\* ------------------------------------------------------------------ C28
\* a step of the started run is pending: the audio decoding, a timeout, or a
\* seek in progress whose 'seeked' has a listener of the run
StepPending ==
  pc = "audio" \/ pc = "yield" \/ (pc \in {"seek", "thumb"} /\ video.seeking)

\* the run has ended with its results delivered or with an error logged
EndedInReady ==
  /\ appState' = READY
  /\ \/ run'.outcome = "complete" /\ run'.loopsDetected = 1
     \/ ErrorLogs(logs', run.logsBefore) # {}

\* C28: a started run terminates when every seek settles: while appState is
\* ANALYZING a step of the run is pending, every step of the run either advances
\* its position (samples taken, then thumbnails made, both bounded) or ends it
\* with appState READY and the results delivered or an error logged, and the
\* thumbnail loop makes one thumbnail per final unit.
C28_RunTerminates ==
  /\ [](appState = ANALYZING => StepPending)
  /\ [](pc = "thumb" => Len(resultLoopsWithThumbs) < Len(finalLoops))
  /\ [][(run.outcome = "running" /\ RunVars' # RunVars) =>
          IF run'.outcome = "running" THEN Rank' > Rank ELSE EndedInReady]_vars

\* ------------------------------------------------------------------ C29
\* the step is a change of the selected file
FileChanges == file' # file \/ \E f \in Files : HandleFileUpload(f)

\* C29: a change of the selected file clears the caller's loops and motion
\* data and READY is reached again only by the metadata load that follows;
\* loops and motion data become non-empty only by a step of a run on the
\* selected file, so whenever either is non-empty the run that was started
\* last was on the currently selected file.
C29_ResultsOfSelectedFile ==
  /\ []((loops # <<>> \/ motionData # <<>>) =>
          (run.file = file /\ run.no > 0 /\ appState \in {READY, ANALYZING}))
  /\ [][/\ FileChanges =>
            (loops' = <<>> /\ motionData' = <<>> /\ appState' = LOADING_VIDEO)
        /\ (loops' # loops /\ loops' # <<>>) =>
            (run.outcome = "running" /\ run'.outcome = "complete" /\ run.file = file'
             /\ Len(loops') = Len(finalLoops))
        /\ (motionData' # motionData /\ motionData' # <<>>) =>
            (run.outcome = "running" /\ run.file = file'
             /\ run'.motionDataUpdates = run.motionDataUpdates + 1)]_vars

\* a run on one file delivered loops, another file was selected, and READY was
\* reached again with the caller's loops and motion data empty
C29_Witness ==
  /\ appState = READY /\ run.outcome = "complete" /\ run.atomicLoops > 0
  /\ run.file # file /\ loops = <<>> /\ motionData = <<>>

\* ------------------------------------------------------------------ C30
DistinctIds(units) ==
  \A i, j \in 1..Len(units) : units[i].id = units[j].id => i = j

\* the list without its k-th record
Without(units, k) == SubSeq(units, 1, k - 1) \o SubSeq(units, k + 1, Len(units))

\* C30: the ids of the final units of a run are pairwise distinct, and a
\* removal by id deletes exactly the record with that id: the list after it is
\* the list before it without that one record, the others unchanged and in the
\* same order.
C30_RemoveExactlyOne ==
  /\ [](DistinctIds(finalLoops) /\ DistinctIds(loops))
  /\ [][\A k \in 1..Len(loops) :
          handleRemoveLoop(loops[k].id) => loops' = Without(loops, k)]_vars

\* a unit that is neither the first nor the last was removed from a delivered
\* list of at least three units
C30_Witness ==
  /\ pc = "idle" /\ appState = READY
  /\ Len(finalLoops) >= 3 /\ Len(loops) = Len(finalLoops) - 1
  /\ loops[1].id = finalLoops[1].id
  /\ loops[Len(loops)].id = finalLoops[Len(finalLoops)].id

====
